---- MODULE Spec2Model ----
(***************************************************************************)
(* The three notebooks of the repository as straight-line programs run by  *)
(* one Python kernel:                                                      *)
(*   "SaveLoad"  src/unnamed/part_000 (Saving and Loading Models)          *)
(*   "Spectral"  src/examples/01_Exact_GPs/Spectral_Mixture_GP_Regression  *)
(*   "CIQ"       src/examples/02_Scalable_Exact_GPs/                       *)
(*               Exact_GP_Posterior_Sampling_with_CIQ                      *)
(* A state is the kernel's namespace (model, likelihood, state_dict, ...), *)
(* the files on disk, the statement the kernel is at, and the exception    *)
(* that stopped it, if any.  A step executes one statement of a code cell. *)
(*                                                                         *)
(* Numbers are fixed point in units of 1e-4, the resolution at which the   *)
(* notebooks print their tensors: 1.2 is 12000, 1e-4 is 1.                 *)
(***************************************************************************)
EXTENDS Integers, Sequences, FiniteSets, TLC

VARIABLES
    nb,             \* the notebook the kernel runs
    env,            \* [CI, cuda, keops]: 'CI' in os.environ, torch.cuda.is_available(), the HAVE_KEOPS cell as edited
    pc,             \* index in Program(nb) of the next statement
    exc,            \* 0, or the index of the statement whose call raised
    clock,          \* the number of statements completed
    ran,            \* per statement: how often it completed, and the clock of its first and last completion
    classes,        \* names of the model classes defined so far
    train_x,        \* [n, device] or None
    train_y,
    test_x,
    test_n,
    HAVE_KEOPS,
    training_iter,
    i,              \* the training loop's counter
    liks,           \* the GaussianLikelihood objects created so far (the heap of likelihoods)
    likelihood,     \* index in liks of the object the name likelihood is bound to, 0 when unbound
    model,          \* the object the name model is bound to, or None
    state_dict,     \* the dict returned by torch.load, or None
    saved,          \* the dict handed to the last torch.save (history)
    preload,        \* state_dict() of the new model when load_state_dict was entered (history)
    files,          \* file name -> checkpoint bytes, for the files that exist
    optimizer,      \* [params, steps] or None
    mll,
    output,         \* result of the last model(train_x)
    loss,
    observed_pred,  \* result of likelihood(model(test_x))
    y_samples,      \* the draws of rsample(), in order
    settings,       \* stack of the settings contexts entered (innermost last)
    fig,            \* what has been drawn on the figure
    out             \* what the cells have displayed or printed, in order

vars == <<nb, env, pc, exc, clock, ran, classes, train_x, train_y, test_x, test_n,
          HAVE_KEOPS, training_iter, i, liks, likelihood, model, state_dict,
          saved, preload, files, optimizer, mll, output, loss, observed_pred,
          y_samples, settings, fig, out>>

None == [none |-> TRUE]

(***************************************************************************)
(* Bounds and constants                                                    *)
(***************************************************************************)
\* Linear layers are initialised at random: each weight and bias tensor is
\* drawn from 0..MaxInitWeight.
MaxInitWeight == 1

\* tensor(inf), the upper bound of every constraint; above every other value.
Inf == 100000000

(***************************************************************************)
(* Tensors and modules (torch.nn.Module as the notebooks use it)           *)
(***************************************************************************)
Tensor(shape, val) == [shape |-> shape, val |-> val]

\* A module: ordered parameters, ordered buffers, ordered children, and the
\* training flag, which a new module has set.
Module(params, buffers, children) ==
    [params |-> params, buffers |-> buffers, children |-> children, training |-> TRUE]

\* softplus on the raw values the notebooks reach, and its inverse.
SoftplusTable == { <<0, 6931>>, <<8416, 12000>>, <<20826, 22000>> }

softplus(raw) == (CHOOSE e \in SoftplusTable : e[1] = raw)[2]

inv_softplus(v) == (CHOOSE e \in SoftplusTable : e[2] = v)[1]

\* gpytorch.constraints.Positive / GreaterThan: two buffers.
Interval(lower) ==
    Module(<<>>, << <<"lower_bound", Tensor(<<>>, lower)>>,
                    <<"upper_bound", Tensor(<<>>, Inf)>> >>, <<>>)

\* constraint.transform and constraint.inverse_transform
transform(constraint, raw) == softplus(raw) + constraint.buffers[1][2].val

inverse_transform(constraint, v) == inv_softplus(v - constraint.buffers[1][2].val)

GaussianLikelihood ==
    Module(<<>>, <<>>,
        << <<"noise_covar",
             Module(<< <<"raw_noise", Tensor(<<1>>, 0)>> >>, <<>>,
                    << <<"raw_noise_constraint", Interval(1)>> >>)>> >>)

ConstantMean == Module(<< <<"raw_constant", Tensor(<<>>, 0)>> >>, <<>>, <<>>)

RBFKernel(keops) ==
    Module(<< <<"raw_lengthscale", Tensor(<<1, 1>>, 0)>> >>, <<>>,
           << <<"raw_lengthscale_constraint", Interval(0)>> >>)
        @@ [keops |-> keops]

ScaleKernel(base_kernel) ==
    Module(<< <<"raw_outputscale", Tensor(<<>>, 0)>> >>, <<>>,
           << <<"base_kernel", base_kernel>>,
              <<"raw_outputscale_constraint", Interval(0)>> >>)

\* SpectralMixtureKernel(num_mixtures): the three raw parameters, each with a
\* Positive constraint; init is None until initialize_from_data runs.
SpectralMixtureKernel(num_mixtures) ==
    Module(<< <<"raw_mixture_weights", Tensor(<<num_mixtures>>, 0)>>,
              <<"raw_mixture_means", Tensor(<<num_mixtures, 1, 1>>, 0)>>,
              <<"raw_mixture_scales", Tensor(<<num_mixtures, 1, 1>>, 0)>> >>, <<>>,
           << <<"raw_mixture_scales_constraint", Interval(0)>>,
              <<"raw_mixture_means_constraint", Interval(0)>>,
              <<"raw_mixture_weights_constraint", Interval(0)>> >>)
        @@ [num_mixtures |-> num_mixtures, init |-> None]

\* covar_module.initialize_from_data(train_x, train_y): the raw parameters are
\* set from the data (abstracted to the data's size).
initialize_from_data(kernel, tx, ty) ==
    [kernel EXCEPT
        !.params = [k \in 1..Len(kernel.params) |->
                        <<kernel.params[k][1],
                          Tensor(kernel.params[k][2].shape, tx.n)>>],
        !.init = [x |-> tx, y |-> ty]]

Linear(nin, nout, w, b) ==
    Module(<< <<"weight", Tensor(<<nout, nin>>, w)>>,
              <<"bias", Tensor(<<nout>>, b)>> >>, <<>>, <<>>)

BatchNorm1d(n) ==
    Module(<< <<"weight", Tensor(<<n>>, 10000)>>, <<"bias", Tensor(<<n>>, 0)>> >>,
           << <<"running_mean", Tensor(<<n>>, 0)>>,
              <<"running_var", Tensor(<<n>>, 10000)>>,
              <<"num_batches_tracked", Tensor(<<>>, 0)>> >>, <<>>)

ReLU == Module(<<>>, <<>>, <<>>)

\* torch.nn.Sequential names its children "0", "1", ...
Sequential(mods) ==
    Module(<<>>, <<>>,
           [k \in 1..Len(mods) |-> <<(<<"0", "1", "2", "3", "4", "5">>)[k], mods[k]>>])

(***************************************************************************)
(* The model classes the notebooks define                                  *)
(***************************************************************************)
\* gpytorch.models.ExactGP.__init__ followed by the subclass's assignments:
\* the likelihood is the first child and is held by reference (lik is its
\* index in liks), so two models built with one likelihood share it.
ExactGP(cls, tx, ty, lik, children) ==
    Module(<<>>, <<>>, << <<"likelihood", [ref |-> lik]>> >> \o children)
        @@ [cls |-> cls, train_inputs |-> tx, train_targets |-> ty, device |-> "cpu"]

\* part_000, cell 3
ExactGPModel(tx, ty, lik) ==
    ExactGP("ExactGPModel", tx, ty, lik,
        << <<"mean_module", ConstantMean>>,
           <<"covar_module", ScaleKernel(RBFKernel(FALSE))>> >>)

\* part_000, cell 10; w holds the random initial values of the Linear layers
GPWithNNFeatureExtractor(tx, ty, lik, w) ==
    ExactGP("GPWithNNFeatureExtractor", tx, ty, lik,
        << <<"mean_module", ConstantMean>>,
           <<"covar_module", ScaleKernel(RBFKernel(FALSE))>>,
           <<"feature_extractor",
             Sequential(<< Linear(1, 2, w[1], w[2]), BatchNorm1d(2), ReLU,
                           Linear(2, 2, w[3], w[4]), BatchNorm1d(2), ReLU >>)>> >>)

\* The class without its initialize_from_data line.
SpectralMixtureGPModelDefaultInit(tx, ty, lik) ==
    ExactGP("SpectralMixtureGPModel", tx, ty, lik,
        << <<"mean_module", ConstantMean>>,
           <<"covar_module", SpectralMixtureKernel(4)>> >>)

\* Spectral_Mixture_GP_Regression, cell 3
SpectralMixtureGPModel(tx, ty, lik) ==
    ExactGP("SpectralMixtureGPModel", tx, ty, lik,
        << <<"mean_module", ConstantMean>>,
           <<"covar_module",
             initialize_from_data(SpectralMixtureKernel(4), tx, ty)>> >>)

\* Exact_GP_Posterior_Sampling_with_CIQ, cell 4
CIQExactGPModel(tx, ty, lik, have_keops) ==
    ExactGP("ExactGPModel", tx, ty, lik,
        << <<"mean_module", ConstantMean>>,
           <<"covar_module",
             IF have_keops THEN ScaleKernel(RBFKernel(TRUE))
                           ELSE ScaleKernel(RBFKernel(FALSE))>> >>)

(***************************************************************************)
(* Traversals of the module tree                                           *)
(***************************************************************************)
IsRef(c) == "ref" \in DOMAIN c

Deref(h, c) == IF IsRef(c) THEN h[c.ref] ELSE c

\* The likelihood a model holds.
LikRef(m) == m.children[1][2].ref

Prefixed(prefix, named) ==
    [k \in 1..Len(named) |-> <<prefix \o <<named[k][1]>>, named[k][2]>>]

\* A state_dict() that stops at the module it is called on.
StateDictOwnOnly(h, m, prefix) ==
    Prefixed(prefix, m.params) \o Prefixed(prefix, m.buffers)

RECURSIVE StateDict(_, _, _)
RECURSIVE ChildrenStateDict(_, _, _, _)
\* Module.state_dict(): the module's parameters, then its buffers, then each
\* child's state dict, every key prefixed with the path to its module.
StateDict(h, m, prefix) ==
    Prefixed(prefix, m.params) \o Prefixed(prefix, m.buffers)
        \o ChildrenStateDict(h, m, prefix, 1)

ChildrenStateDict(h, m, prefix, k) ==
    IF k > Len(m.children) THEN <<>>
    ELSE StateDict(h, Deref(h, m.children[k][2]), prefix \o <<m.children[k][1]>>)
            \o ChildrenStateDict(h, m, prefix, k + 1)

RECURSIVE NamedParameters(_, _, _)
RECURSIVE ChildrenParameters(_, _, _, _)
\* Module.named_parameters(): the parameters only, same order and keys.
NamedParameters(h, m, prefix) ==
    Prefixed(prefix, m.params) \o ChildrenParameters(h, m, prefix, 1)

ChildrenParameters(h, m, prefix, k) ==
    IF k > Len(m.children) THEN <<>>
    ELSE NamedParameters(h, Deref(h, m.children[k][2]), prefix \o <<m.children[k][1]>>)
            \o ChildrenParameters(h, m, prefix, k + 1)

Keys(sd) == {sd[k][1] : k \in 1..Len(sd)}

\* The dict as a mapping from key to tensor.
AsMap(sd) == [p \in Keys(sd) |-> sd[CHOOSE k \in 1..Len(sd) : sd[k][1] = p][2]]

RECURSIVE SetTraining(_, _)
\* Module.train(mode): the flag of the module and of every module under it
\* (a child held by reference is set by the caller, through liks).
SetTraining(m, mode) ==
    [m EXCEPT !.training = mode,
              !.children = [k \in 1..Len(m.children) |->
                    IF IsRef(m.children[k][2]) THEN m.children[k]
                    ELSE <<m.children[k][1], SetTraining(m.children[k][2], mode)>>]]

RECURSIVE AllTraining(_, _)
\* Every module of the tree has its training flag equal to mode.
AllTraining(m, mode) ==
    /\ m.training = mode
    /\ \A k \in 1..Len(m.children) :
          IsRef(m.children[k][2]) \/ AllTraining(m.children[k][2], mode)

\* A load that copies nothing.
LoadNamedKeeps(named, prefix, sd) == named

\* Module._load_from_state_dict on one ordered dict of named tensors: a
\* tensor is copied from sd when sd has its key with the same shape.
LoadNamed(named, prefix, sd) ==
    [k \in 1..Len(named) |->
        LET key == prefix \o <<named[k][1]>> IN
        IF key \in DOMAIN sd /\ sd[key].shape = named[k][2].shape
        THEN <<named[k][1], sd[key]>>
        ELSE named[k]]

RECURSIVE LoadInto(_, _, _)
LoadInto(m, prefix, sd) ==
    [m EXCEPT !.params = LoadNamed(m.params, prefix, sd),
              !.buffers = LoadNamed(m.buffers, prefix, sd),
              !.children = [k \in 1..Len(m.children) |->
                    IF IsRef(m.children[k][2]) THEN m.children[k]
                    ELSE <<m.children[k][1],
                           LoadInto(m.children[k][2], prefix \o <<m.children[k][1]>>, sd)>>]]

RECURSIVE StepInto(_, _, _, _)
\* optimizer.step() on one tree: every parameter of the optimizer's group
\* moves by d.
StepInto(m, prefix, group, d) ==
    [m EXCEPT !.params = [k \in 1..Len(m.params) |->
                    IF prefix \o <<m.params[k][1]>> \in group
                    THEN <<m.params[k][1],
                           Tensor(m.params[k][2].shape, m.params[k][2].val + d)>>
                    ELSE m.params[k]],
              !.children = [k \in 1..Len(m.children) |->
                    IF IsRef(m.children[k][2]) THEN m.children[k]
                    ELSE <<m.children[k][1],
                           StepInto(m.children[k][2], prefix \o <<m.children[k][1]>>, group, d)>>]]

Named(named, name) == named[CHOOSE k \in 1..Len(named) : named[k][1] = name][2]

RECURSIVE SubModule(_, _)
SubModule(m, path) ==
    IF path = <<>> THEN m ELSE SubModule(Named(m.children, Head(path)), Tail(path))

\* The property getter of a constrained hyperparameter, e.g.
\* model.covar_module.outputscale: the constraint's transform of the raw value.
Hyper(m, path, name) ==
    LET sub == SubModule(m, path) IN
    transform(Named(sub.children, "raw_" \o name \o "_constraint"),
              Named(sub.params, "raw_" \o name).val)

RECURSIVE SetHyperAtConstrained(_, _, _, _)
\* A setter that stores the value assigned, untransformed.
SetHyperAtConstrained(m, path, name, v) ==
    IF path = <<>>
    THEN [m EXCEPT !.params = [k \in 1..Len(m.params) |->
            IF m.params[k][1] = "raw_" \o name
            THEN <<m.params[k][1], Tensor(m.params[k][2].shape, v)>>
            ELSE m.params[k]]]
    ELSE [m EXCEPT !.children = [k \in 1..Len(m.children) |->
            IF m.children[k][1] = Head(path)
            THEN <<m.children[k][1],
                   SetHyperAtConstrained(m.children[k][2], Tail(path), name, v)>>
            ELSE m.children[k]]]

RECURSIVE SetHyperAt(_, _, _, _)
\* The property setter: the raw parameter, in its own shape, becomes the
\* constraint's inverse transform of the value assigned.
SetHyperAt(m, path, name, v) ==
    IF path = <<>>
    THEN [m EXCEPT !.params = [k \in 1..Len(m.params) |->
            IF m.params[k][1] = "raw_" \o name
            THEN <<m.params[k][1],
                   Tensor(m.params[k][2].shape,
                          inverse_transform(
                              Named(m.children, "raw_" \o name \o "_constraint"), v))>>
            ELSE m.params[k]]]
    ELSE [m EXCEPT !.children = [k \in 1..Len(m.children) |->
            IF m.children[k][1] = Head(path)
            THEN <<m.children[k][1], SetHyperAt(m.children[k][2], Tail(path), name, v)>>
            ELSE m.children[k]]]

(***************************************************************************)
(* torch.save / torch.load                                                 *)
(***************************************************************************)
\* A save of the dict of a wrapped model: every key under "module".
torch_save_wrapped(sd) ==
    [pkl |-> [k \in 1..Len(sd) |->
                [key |-> <<"module">> \o sd[k][1], storage |-> k, size |-> sd[k][2].shape]],
     data |-> [k \in 1..Len(sd) |-> sd[k][2].val]]

\* The checkpoint: a pickled record per key (key, storage number, size) and
\* the storages' contents.
torch_save(sd) ==
    [pkl |-> [k \in 1..Len(sd) |->
                [key |-> sd[k][1], storage |-> k, size |-> sd[k][2].shape]],
     data |-> [k \in 1..Len(sd) |-> sd[k][2].val]]

\* Each tensor is rebuilt from its record and its storage.
torch_load(bytes) ==
    [k \in 1..Len(bytes.pkl) |->
        <<bytes.pkl[k].key,
          Tensor(bytes.pkl[k].size, bytes.data[bytes.pkl[k].storage])>>]

(***************************************************************************)
(* The notebooks' code cells, statement by statement                       *)
(***************************************************************************)
St(cell, line, op, arg) == [cell |-> cell, line |-> line, op |-> op, arg |-> arg]

NoArg == [x \in {} |-> 0]

\* src/unnamed/part_000
SaveLoadProgram == <<
    St(1, 18, "import", NoArg),
    St(2, 40, "train_x", [n |-> 100]),
    St(2, 41, "train_y", NoArg),
    St(3, 51, "class", [cls |-> "ExactGPModel"]),
    St(3, 63, "new_likelihood", NoArg),
    St(3, 64, "new_model", [cls |-> "ExactGPModel"]),
    St(4, 82, "set_hyper", [path |-> <<"covar_module">>, name |-> "outputscale", value |-> 12000]),
    St(4, 83, "set_hyper", [path |-> <<"covar_module", "base_kernel">>, name |-> "lengthscale", value |-> 22000]),
    St(5, 127, "show_state_dict", NoArg),
    St(6, 145, "torch_save", [file |-> "model_state.pth"]),
    St(7, 174, "torch_load", [file |-> "model_state.pth"]),
    St(7, 175, "new_model", [cls |-> "ExactGPModel"]),
    St(7, 177, "load_state_dict", NoArg),
    St(8, 212, "show_state_dict", NoArg),
    St(10, 230, "class", [cls |-> "GPWithNNFeatureExtractor"]),
    St(10, 252, "new_likelihood", NoArg),
    St(10, 253, "new_model", [cls |-> "GPWithNNFeatureExtractor"]),
    St(11, 315, "show_state_dict", NoArg),
    St(12, 335, "torch_save", [file |-> "my_gp_with_nn_model.pth"]),
    St(12, 336, "torch_load", [file |-> "my_gp_with_nn_model.pth"]),
    St(12, 337, "new_model", [cls |-> "GPWithNNFeatureExtractor"]),
    St(12, 338, "load_state_dict", NoArg),
    St(13, 391, "show_state_dict", NoArg) >>

\* src/examples/01_Exact_GPs/Spectral_Mixture_GP_Regression.ipynb
SpectralProgram == <<
    St(1, 25, "import", NoArg),
    St(2, 48, "train_x", [n |-> 15]),
    St(2, 49, "train_y", NoArg),
    St(3, 76, "class", [cls |-> "SpectralMixtureGPModel"]),
    St(3, 89, "new_likelihood", NoArg),
    St(3, 90, "new_model", [cls |-> "SpectralMixtureGPModel"]),
    St(4, 221, "training_iter", [smoke |-> 2, full |-> 100]),
    St(4, 224, "model_train", NoArg),
    St(4, 225, "likelihood_train", NoArg),
    St(4, 228, "new_optimizer", NoArg),
    St(4, 231, "new_mll", NoArg),
    St(4, 233, "for", [exit |-> 19]),
    St(4, 234, "zero_grad", NoArg),
    St(4, 235, "forward", NoArg),
    St(4, 236, "loss", NoArg),
    St(4, 237, "backward", NoArg),
    St(4, 238, "print", [text |-> "Iter"]),
    St(4, 239, "step", [head |-> 12]),
    St(5, 271, "test_x", [n |-> 51]),
    St(5, 274, "model_eval", NoArg),
    St(5, 275, "likelihood_eval", NoArg),
    St(5, 279, "with", [ctx |-> [no_grad |-> TRUE, fast_pred_var |-> TRUE]]),
    St(5, 281, "predict", NoArg),
    St(5, 284, "plot", [what |-> "subplots"]),
    St(5, 287, "plot", [what |-> "confidence_region"]),
    St(5, 289, "plot", [what |-> "train_data"]),
    St(5, 291, "plot", [what |-> "mean"]),
    St(5, 293, "plot", [what |-> "fill_between"]),
    St(5, 294, "plot", [what |-> "set_ylim"]),
    St(5, 295, "plot", [what |-> "legend"]),
    St(5, 295, "end_with", NoArg) >>

\* src/examples/02_Scalable_Exact_GPs/Exact_GP_Posterior_Sampling_with_CIQ.ipynb
CIQProgram == <<
    St(1, 57, "import", NoArg),
    St(2, 77, "train_x", [n |-> 1000]),
    St(2, 79, "train_y", NoArg),
    St(3, 97, "have_keops", NoArg),
    St(4, 113, "class", [cls |-> "ExactGPModel"]),
    St(4, 129, "new_likelihood", NoArg),
    St(4, 130, "new_model", [cls |-> "ExactGPModel"]),
    St(5, 139, "if_cuda", [what |-> "train"]),
    St(6, 212, "training_iter", [smoke |-> 2, full |-> 50]),
    St(6, 215, "model_train", NoArg),
    St(6, 216, "likelihood_train", NoArg),
    St(6, 219, "new_optimizer", NoArg),
    St(6, 222, "new_mll", NoArg),
    St(6, 224, "for", [exit |-> 21]),
    St(6, 226, "zero_grad", NoArg),
    St(6, 228, "forward", NoArg),
    St(6, 230, "loss", NoArg),
    St(6, 231, "backward", NoArg),
    St(6, 232, "print", [text |-> "Iter"]),
    St(6, 237, "step", [head |-> 14]),
    St(7, 263, "test_n", [keops |-> 50000, plain |-> 10000]),
    St(7, 268, "test_x", [n |-> 0]),
    St(7, 269, "if_cuda", [what |-> "test"]),
    St(7, 271, "print", [text |-> "shape"]),
    St(8, 308, "import", NoArg),
    St(8, 310, "model_train", NoArg),
    St(8, 311, "likelihood_train", NoArg),
    St(8, 314, "model_eval", NoArg),
    St(8, 315, "likelihood_eval", NoArg),
    St(8, 320, "requires_grad", NoArg),
    St(8, 322, "with", [ctx |-> [no_grad |-> TRUE]]),
    St(8, 323, "predict", NoArg),
    St(8, 329, "print", [text |-> "Running with CIQ"]),
    St(8, 330, "with", [ctx |-> [ciq_samples |-> TRUE, num_contour_quadrature |-> 10,
                                 minres_tolerance |-> 1]]),
    St(8, 331, "rsample", NoArg),
    St(8, 331, "end_with", NoArg),
    St(8, 333, "print", [text |-> "Running with Cholesky"]),
    St(8, 335, "with", [ctx |-> [covar_root_decomposition |-> FALSE]]),
    St(8, 336, "rsample", NoArg),
    St(8, 336, "end_with", NoArg),
    St(8, 336, "end_with", NoArg) >>

Notebooks == {"SaveLoad", "Spectral", "CIQ"}

\* The save/load notebook with cell 12 reading the first section's file.
ProgramLoadsOtherFile(n) ==
    CASE n = "SaveLoad" -> [SaveLoadProgram EXCEPT ![20].arg.file = "model_state.pth"]
      [] n = "Spectral" -> SpectralProgram
      [] n = "CIQ" -> CIQProgram

Program(n) ==
    CASE n = "SaveLoad" -> SaveLoadProgram
      [] n = "Spectral" -> SpectralProgram
      [] n = "CIQ" -> CIQProgram

Prog == Program(nb)

\* The statements whose work is a call into torch, gpytorch or matplotlib.
LibraryOps ==
    {"import", "train_x", "train_y", "new_likelihood", "new_model", "set_hyper",
     "show_state_dict", "torch_save", "torch_load", "load_state_dict", "if_cuda",
     "model_train", "likelihood_train", "model_eval", "likelihood_eval",
     "new_optimizer", "new_mll", "zero_grad", "forward", "loss", "backward",
     "step", "test_x", "requires_grad", "predict", "rsample", "plot"}

(***************************************************************************)
(* Initial state                                                           *)
(***************************************************************************)
InitWeights == [1..4 -> 0..MaxInitWeight]

NoFiles == [f \in {} |-> <<>>]

\* The checkpoints an earlier run of the save/load notebook with untouched
\* hyperparameters and this draw of weights leaves behind.
StaleFiles ==
    LET tx == [n |-> 100, device |-> "cpu"]
        w == [k \in 1..4 |-> MaxInitWeight] IN
    [f \in {"model_state.pth", "my_gp_with_nn_model.pth"} |->
        IF f = "model_state.pth"
        THEN torch_save(StateDict(<<GaussianLikelihood>>, ExactGPModel(tx, tx, 1), <<>>))
        ELSE torch_save(StateDict(<<GaussianLikelihood>>,
                                  GPWithNNFeatureExtractor(tx, tx, 1, w), <<>>))]

Init ==
    /\ nb \in Notebooks
    /\ env \in [CI : BOOLEAN, cuda : BOOLEAN, keops : BOOLEAN]
    /\ nb = "SaveLoad" => ~env.CI
    /\ nb # "CIQ" => ~env.cuda /\ ~env.keops
    /\ files \in IF nb = "SaveLoad" THEN {NoFiles, StaleFiles} ELSE {NoFiles}
    /\ pc = 1
    /\ exc = 0
    /\ clock = 0
    /\ ran = [s \in 1..Len(Program(nb)) |-> [n |-> 0, first |-> 0, last |-> 0]]
    /\ classes = {}
    /\ train_x = None /\ train_y = None /\ test_x = None /\ test_n = None
    /\ HAVE_KEOPS = None
    /\ training_iter = None
    /\ i = 0
    /\ liks = <<>>
    /\ likelihood = 0
    /\ model = None
    /\ state_dict = None /\ saved = None /\ preload = None
    /\ optimizer = None /\ mll = None /\ output = None /\ loss = None
    /\ observed_pred = None
    /\ y_samples = <<>>
    /\ settings = <<>>
    /\ fig = <<>>
    /\ out = <<>>

(***************************************************************************)
(* Statements                                                              *)
(***************************************************************************)
\* A run in which every exception is swallowed.
HaltedNever == FALSE

\* No cell has a try statement: once a call has raised, the run is over.
Halted == exc # 0

\* The kernel is at a statement of kind op.
At(op) == ~Halted /\ pc \in 1..Len(Prog) /\ Prog[pc].op = op

Arg == Prog[pc].arg

\* The statement completes and control moves to the statement at next.
Advance(next) ==
    /\ pc' = next
    /\ exc' = exc
    /\ clock' = clock + 1
    /\ ran' = [ran EXCEPT ![pc] = [n |-> @.n + 1,
                                   first |-> IF @.n = 0 THEN clock + 1 ELSE @.first,
                                   last |-> clock + 1]]

\* The same, for a statement that neither enters nor leaves a with block.
Goto(next) == Advance(next) /\ UNCHANGED settings

Done == Goto(pc + 1)

\* The call raises: control stays at the statement, which does not complete,
\* and the with blocks around it are left.
Raised == pc' = pc /\ exc' = pc /\ UNCHANGED <<clock, ran>> /\ settings' = <<>>

data == <<train_x, train_y, test_x, test_n>>
config == <<nb, env, classes, HAVE_KEOPS, training_iter, i>>
objects == <<liks, likelihood, model>>
checkpoint == <<state_dict, saved, preload, files>>
training == <<optimizer, mll, output, loss>>
results == <<observed_pred, y_samples, fig, out>>

ImportStmt ==
    /\ At("import")
    /\ Done
    /\ UNCHANGED <<data, config, objects, checkpoint, training, results>>

TrainXStmt ==
    /\ At("train_x")
    /\ train_x' = [n |-> Arg.n, device |-> "cpu"]
    /\ Done
    /\ UNCHANGED <<train_y, test_x, test_n, config, objects, checkpoint, training,
                   results>>

TrainYStmt ==
    /\ At("train_y")
    /\ train_y' = [n |-> train_x.n, device |-> train_x.device]
    /\ Done
    /\ UNCHANGED <<train_x, test_x, test_n, config, objects, checkpoint, training,
                   results>>

HaveKeopsStmt ==
    /\ At("have_keops")
    /\ HAVE_KEOPS' = env.keops
    /\ Done
    /\ UNCHANGED <<data, nb, env, classes, training_iter, i, objects, checkpoint,
                   training, results>>

ClassDef ==
    /\ At("class")
    /\ classes' = classes \cup {Arg.cls}
    /\ Done
    /\ UNCHANGED <<data, nb, env, HAVE_KEOPS, training_iter, i, objects, checkpoint,
                   training, results>>

NewLikelihood ==
    /\ At("new_likelihood")
    /\ liks' = Append(liks, GaussianLikelihood)
    /\ likelihood' = Len(liks) + 1
    /\ Done
    /\ UNCHANGED <<data, config, model, checkpoint, training, results>>

\* cls(train_x, train_y, likelihood) for the class of that name in notebook n.
Construct(n, cls, w) ==
    CASE cls = "GPWithNNFeatureExtractor" ->
            GPWithNNFeatureExtractor(train_x, train_y, likelihood, w)
      [] cls = "SpectralMixtureGPModel" ->
            SpectralMixtureGPModel(train_x, train_y, likelihood)
      [] cls = "ExactGPModel" /\ n = "CIQ" ->
            CIQExactGPModel(train_x, train_y, likelihood, HAVE_KEOPS)
      [] OTHER -> ExactGPModel(train_x, train_y, likelihood)

NewModel ==
    /\ At("new_model")
    /\ \E w \in InitWeights :
        IF Arg.cls \in classes /\ likelihood # 0
        THEN /\ model' = Construct(nb, Arg.cls, w)
             /\ Done
        ELSE /\ Raised
             /\ UNCHANGED model
    /\ UNCHANGED <<data, config, liks, likelihood, checkpoint, training, results>>

SetHyper ==
    /\ At("set_hyper")
    /\ model' = SetHyperAt(model, Arg.path, Arg.name, Arg.value)
    /\ Done
    /\ UNCHANGED <<data, config, liks, likelihood, checkpoint, training, results>>

\* A cell whose last statement is an expression displays its value.
Display(value) == out' = Append(out, [cell |-> Prog[pc].cell, value |-> value])

ShowStateDict ==
    /\ At("show_state_dict")
    /\ Display(StateDict(liks, model, <<>>))
    /\ Done
    /\ UNCHANGED <<data, config, objects, checkpoint, training, observed_pred,
                   y_samples, fig>>

\* A save that leaves a file that exists as it is.
TorchSaveKeepsExisting ==
    /\ At("torch_save")
    /\ saved' = StateDict(liks, model, <<>>)
    /\ files' = files @@ (Arg.file :> torch_save(saved'))
    /\ Done
    /\ UNCHANGED <<data, config, objects, state_dict, preload, training, results>>

TorchSave ==
    /\ At("torch_save")
    /\ saved' = StateDict(liks, model, <<>>)
    /\ files' = (Arg.file :> torch_save(saved')) @@ files
    /\ Done
    /\ UNCHANGED <<data, config, objects, state_dict, preload, training, results>>

TorchLoad ==
    /\ At("torch_load")
    /\ IF Arg.file \in DOMAIN files
       THEN /\ state_dict' = torch_load(files[Arg.file])
            /\ Done
       ELSE /\ Raised
            /\ UNCHANGED state_dict
    /\ UNCHANGED <<data, config, objects, saved, preload, files, training, results>>

\* What load_state_dict(sd) with strict=True reports for a model expecting
\* the keys of expected.
missing_keys(expected, sd) ==
    SelectSeq([k \in 1..Len(expected) |-> expected[k][1]],
              LAMBDA key : key \notin Keys(sd))

unexpected_keys(expected, sd) ==
    SelectSeq([k \in 1..Len(sd) |-> sd[k][1]],
              LAMBDA key : key \notin Keys(expected))

size_mismatch(expected, sd) ==
    {key \in Keys(expected) \cap Keys(sd) :
        AsMap(expected)[key].shape # AsMap(sd)[key].shape}

\* model.load_state_dict(state_dict): every matching tensor is copied, into
\* the model's own modules and into the likelihood it holds; any missing or
\* unexpected key or size mismatch then raises, else the cell displays
\* <All keys matched successfully>.
LoadStateDict ==
    /\ At("load_state_dict")
    /\ LET expected == StateDict(liks, model, <<>>)
           sd == AsMap(state_dict)
           lik == LikRef(model) IN
        /\ preload' = expected
        /\ model' = LoadInto(model, <<>>, sd)
        /\ liks' = [liks EXCEPT ![lik] = LoadInto(@, <<"likelihood">>, sd)]
        /\ IF /\ missing_keys(expected, state_dict) = <<>>
              /\ unexpected_keys(expected, state_dict) = <<>>
              /\ size_mismatch(expected, state_dict) = {}
           THEN /\ Display([missing_keys |-> missing_keys(expected, state_dict),
                            unexpected_keys |-> unexpected_keys(expected, state_dict)])
                /\ Done
           ELSE /\ Raised
                /\ UNCHANGED out
    /\ UNCHANGED <<data, config, likelihood, state_dict, saved, files, training,
                   observed_pred, y_samples, fig>>

IfCuda ==
    /\ At("if_cuda")
    /\ IF env.cuda /\ Arg.what = "train"
       THEN /\ train_x' = [train_x EXCEPT !.device = "cuda"]
            /\ train_y' = [train_y EXCEPT !.device = "cuda"]
            /\ model' = [model EXCEPT !.device = "cuda",
                                      !.train_inputs.device = "cuda",
                                      !.train_targets.device = "cuda"]
            /\ UNCHANGED test_x
       ELSE IF env.cuda
       THEN /\ test_x' = [test_x EXCEPT !.device = "cuda"]
            /\ UNCHANGED <<train_x, train_y, model>>
       ELSE UNCHANGED <<train_x, train_y, test_x, model>>
    /\ Done
    /\ UNCHANGED <<test_n, config, liks, likelihood, checkpoint, training, results>>

SetTrainingIter ==
    /\ At("training_iter")
    /\ training_iter' = IF env.CI THEN Arg.smoke ELSE Arg.full
    /\ Done
    /\ UNCHANGED <<data, nb, env, classes, HAVE_KEOPS, i, objects, checkpoint,
                   training, results>>

\* model.train(): ExactGP.train(mode) is Module.train(mode), which reaches
\* every child, the likelihood among them.
ModelTrain ==
    /\ At("model_train")
    /\ model' = SetTraining(model, TRUE)
    /\ liks' = [liks EXCEPT ![LikRef(model)] = SetTraining(@, TRUE)]
    /\ Done
    /\ UNCHANGED <<data, config, likelihood, checkpoint, training, results>>

LikelihoodTrain ==
    /\ At("likelihood_train")
    /\ liks' = [liks EXCEPT ![likelihood] = SetTraining(@, TRUE)]
    /\ Done
    /\ UNCHANGED <<data, config, likelihood, model, checkpoint, training, results>>

\* The cell without its model.eval() line.
ModelEvalSkipped ==
    /\ At("model_eval")
    /\ Done
    /\ UNCHANGED <<data, config, objects, checkpoint, training, results>>

ModelEval ==
    /\ At("model_eval")
    /\ model' = SetTraining(model, FALSE)
    /\ liks' = [liks EXCEPT ![LikRef(model)] = SetTraining(@, FALSE)]
    /\ Done
    /\ UNCHANGED <<data, config, likelihood, checkpoint, training, results>>

LikelihoodEval ==
    /\ At("likelihood_eval")
    /\ liks' = [liks EXCEPT ![likelihood] = SetTraining(@, FALSE)]
    /\ Done
    /\ UNCHANGED <<data, config, likelihood, model, checkpoint, training, results>>

\* The change one step makes to a parameter, in either direction.
StepDeltas == {-1, 1}

\* An optimizer over the mean's and the kernel's parameters only.
NewOptimizerWithoutLikelihood ==
    /\ At("new_optimizer")
    /\ \E d \in StepDeltas :
        optimizer' = [params |-> {key \in Keys(NamedParameters(liks, model, <<>>)) :
                                        key[1] # "likelihood"},
                      lr |-> 1000, steps |-> 0, grad |-> "none", drift |-> d]
    /\ Done
    /\ UNCHANGED <<data, config, objects, checkpoint, mll, output, loss, results>>

\* torch.optim.Adam(model.parameters(), lr=0.1).  The data decide which way
\* the steps drive the parameters; the direction is drawn here, once.
NewOptimizer ==
    /\ At("new_optimizer")
    /\ \E d \in StepDeltas :
        optimizer' = [params |-> Keys(NamedParameters(liks, model, <<>>)),
                      lr |-> 1000, steps |-> 0, grad |-> "none", drift |-> d]
    /\ Done
    /\ UNCHANGED <<data, config, objects, checkpoint, mll, output, loss, results>>

\* gpytorch.mlls.ExactMarginalLogLikelihood(likelihood, model)
NewMll ==
    /\ At("new_mll")
    /\ mll' = [likelihood |-> likelihood, model |-> model.cls]
    /\ Done
    /\ UNCHANGED <<data, config, objects, checkpoint, optimizer, output, loss, results>>

\* A loop whose body never runs.
ForLoopSkips ==
    /\ At("for")
    /\ Goto(Arg.exit)
    /\ UNCHANGED <<data, config, objects, checkpoint, training, results>>

\* for i in range(training_iter): i counts the iterations completed.
ForLoop ==
    /\ At("for")
    /\ IF i < training_iter THEN Done ELSE Goto(Arg.exit)
    /\ UNCHANGED <<data, config, objects, checkpoint, training, results>>

ZeroGrad ==
    /\ At("zero_grad")
    /\ optimizer' = [optimizer EXCEPT !.grad = "zero"]
    /\ Done
    /\ UNCHANGED <<data, config, objects, checkpoint, mll, output, loss, results>>

\* ExactGP.__call__(x): in training mode the prior at the training inputs
\* (any other input is an error), in eval mode the posterior at x; inputs on
\* another device than the model are an error.
gp_call(m, x) ==
    IF m.device # x.device THEN "error"
    ELSE IF m.training
         THEN IF x.n = m.train_inputs.n THEN "prior" ELSE "error"
         ELSE "posterior"

Forward ==
    /\ At("forward")
    /\ IF gp_call(model, train_x) = "error"
       THEN Raised /\ UNCHANGED output
       ELSE /\ output' = [kind |-> gp_call(model, train_x), n |-> train_x.n]
            /\ Done
    /\ UNCHANGED <<data, config, objects, checkpoint, optimizer, mll, loss, results>>

\* loss = -mll(output, train_y)
Loss ==
    /\ At("loss")
    /\ loss' = [of |-> output.kind,
                likelihood_training |-> liks[mll.likelihood].training]
    /\ Done
    /\ UNCHANGED <<data, config, objects, checkpoint, optimizer, mll, output, results>>

Backward ==
    /\ At("backward")
    /\ optimizer' = [optimizer EXCEPT !.grad = "set"]
    /\ Done
    /\ UNCHANGED <<data, config, objects, checkpoint, mll, output, loss, results>>

PrintStmt ==
    /\ At("print")
    /\ out' = Append(out, [cell |-> Prog[pc].cell, value |-> Arg.text])
    /\ Done
    /\ UNCHANGED <<data, config, objects, checkpoint, training, observed_pred,
                   y_samples, fig>>

\* A step outside the loop: control falls through to the next statement.
OptimizerStepFallsThrough ==
    /\ At("step")
    /\ model' = StepInto(model, <<>>, optimizer.params, optimizer.drift)
    /\ liks' = [liks EXCEPT ![LikRef(model)] =
                    StepInto(@, <<"likelihood">>, optimizer.params, optimizer.drift)]
    /\ optimizer' = [optimizer EXCEPT !.steps = @ + 1, !.grad = "used"]
    /\ i' = i + 1
    /\ Done
    /\ UNCHANGED <<data, nb, env, classes, HAVE_KEOPS, training_iter, likelihood,
                   checkpoint, mll, output, loss, results>>

\* optimizer.step(), the last statement of the loop body: every parameter of
\* the optimizer's group moves, and control returns to the for statement.
OptimizerStep ==
    /\ At("step")
    /\ model' = StepInto(model, <<>>, optimizer.params, optimizer.drift)
    /\ liks' = [liks EXCEPT ![LikRef(model)] =
                    StepInto(@, <<"likelihood">>, optimizer.params, optimizer.drift)]
    /\ optimizer' = [optimizer EXCEPT !.steps = @ + 1, !.grad = "used"]
    /\ i' = i + 1
    /\ Goto(Arg.head)
    /\ UNCHANGED <<data, nb, env, classes, HAVE_KEOPS, training_iter, likelihood,
                   checkpoint, mll, output, loss, results>>

\* A test set sized without reading the flag.
SetTestNIgnoresFlag ==
    /\ At("test_n")
    /\ test_n' = Arg.plain
    /\ Done
    /\ UNCHANGED <<train_x, train_y, test_x, config, objects, checkpoint, training,
                   results>>

SetTestN ==
    /\ At("test_n")
    /\ test_n' = IF HAVE_KEOPS THEN Arg.keops ELSE Arg.plain
    /\ Done
    /\ UNCHANGED <<train_x, train_y, test_x, config, objects, checkpoint, training,
                   results>>

\* test_x = torch.linspace(a, b, n); n is test_n where the cell says so.
TestXStmt ==
    /\ At("test_x")
    /\ test_x' = [n |-> IF Arg.n = 0 THEN test_n ELSE Arg.n, device |-> "cpu",
                  requires_grad |-> FALSE]
    /\ Done
    /\ UNCHANGED <<train_x, train_y, test_n, config, objects, checkpoint, training,
                   results>>

RequiresGrad ==
    /\ At("requires_grad")
    /\ test_x' = [test_x EXCEPT !.requires_grad = TRUE]
    /\ Done
    /\ UNCHANGED <<train_x, train_y, test_n, config, objects, checkpoint, training,
                   results>>

WithEnter ==
    /\ At("with")
    /\ settings' = Append(settings, Arg.ctx)
    /\ Advance(pc + 1)
    /\ UNCHANGED <<data, config, objects, checkpoint, training, results>>

\* A with block whose settings stay in effect after it.
WithExitKeepsSettings ==
    /\ At("end_with")
    /\ settings' = settings
    /\ Advance(pc + 1)
    /\ UNCHANGED <<data, config, objects, checkpoint, training, results>>

WithExit ==
    /\ At("end_with")
    /\ settings' = SubSeq(settings, 1, Len(settings) - 1)
    /\ Advance(pc + 1)
    /\ UNCHANGED <<data, config, objects, checkpoint, training, results>>

\* gpytorch.settings defaults, overridden by the with blocks entered.
DefaultSettings ==
    [no_grad |-> FALSE, fast_pred_var |-> FALSE, ciq_samples |-> FALSE,
     num_contour_quadrature |-> 15, minres_tolerance |-> 1,
     covar_root_decomposition |-> TRUE]

RECURSIVE Effective(_)
Effective(stack) ==
    IF stack = <<>> THEN DefaultSettings
    ELSE stack[Len(stack)] @@ Effective(SubSeq(stack, 1, Len(stack) - 1))

\* observed_pred = likelihood(model(test_x))
Predict ==
    /\ At("predict")
    /\ IF gp_call(model, test_x) = "error"
       THEN Raised /\ UNCHANGED observed_pred
       ELSE /\ observed_pred' = [kind |-> gp_call(model, test_x), n |-> test_x.n,
                                 likelihood_training |-> liks[likelihood].training]
            /\ Done
    /\ UNCHANGED <<data, config, objects, checkpoint, training, y_samples, fig, out>>

\* y_samples = observed_pred.rsample(), under the settings in effect.
RSample ==
    /\ At("rsample")
    /\ y_samples' = Append(y_samples,
            [method |-> IF Effective(settings).ciq_samples THEN "ciq" ELSE "cholesky",
             settings |-> Effective(settings), n |-> observed_pred.n])
    /\ Done
    /\ UNCHANGED <<data, config, objects, checkpoint, training, observed_pred, fig, out>>

PlotStmt ==
    /\ At("plot")
    /\ fig' = Append(fig, Arg.what)
    /\ Done
    /\ UNCHANGED <<data, config, objects, checkpoint, training, observed_pred,
                   y_samples, out>>

\* A library call raises for a reason outside the notebook (a missing
\* package or file, no memory, an error inside the framework).
Raise ==
    /\ ~Halted
    /\ pc \in 1..Len(Prog)
    /\ Prog[pc].op \in LibraryOps
    /\ Raised
    /\ UNCHANGED <<data, config, objects, checkpoint, training, results>>

Next ==
    \/ ImportStmt \/ TrainXStmt \/ TrainYStmt \/ HaveKeopsStmt \/ ClassDef
    \/ NewLikelihood \/ NewModel \/ SetHyper \/ ShowStateDict
    \/ TorchSave \/ TorchLoad \/ LoadStateDict
    \/ IfCuda \/ SetTrainingIter
    \/ ModelTrain \/ LikelihoodTrain \/ ModelEval \/ LikelihoodEval
    \/ NewOptimizer \/ NewMll \/ ForLoop \/ ZeroGrad \/ Forward \/ Loss
    \/ Backward \/ PrintStmt \/ OptimizerStep
    \/ SetTestN \/ TestXStmt \/ RequiresGrad \/ WithEnter \/ WithExit
    \/ Predict \/ RSample \/ PlotStmt
    \/ Raise

Spec == Init /\ [][Next]_vars

(***************************************************************************)
(* Vocabulary of the properties                                            *)
(***************************************************************************)
\* The statements of kind op, and those of them that have completed.
Stmts(op) == {s \in 1..Len(Prog) : Prog[s].op = op}

Ran(op) == {s \in Stmts(op) : ran[s].n > 0}

\* The statement completed last is of kind op.
JustDid(op) == \E s \in Ran(op) : ran[s].last = clock

\* Every cell has run to its end.
Finished == ~Halted /\ pc = Len(Prog) + 1

\* The state dict of the model, as state_dict() returns it now.
CurrentStateDict == StateDict(liks, model, <<>>)

\* The value assigned to the hyperparameter name in the save/load notebook.
Assigned(name) ==
    LET s == CHOOSE s \in 1..Len(SaveLoadProgram) :
                /\ SaveLoadProgram[s].op = "set_hyper"
                /\ SaveLoadProgram[s].arg.name = name
    IN SaveLoadProgram[s].arg.value

\* The save/load notebook's first model, with both hyperparameters assigned,
\* or the model its checkpoint was loaded into.
HasAssignedState ==
    /\ nb = "SaveLoad"
    /\ model # None
    /\ model.cls = "ExactGPModel"
    /\ \/ /\ Ran("set_hyper") = Stmts("set_hyper")
          /\ \A s \in Ran("new_model"), h \in Stmts("set_hyper") :
                ran[s].last < ran[h].last
       \/ JustDid("load_state_dict")
       \/ JustDid("show_state_dict") /\ Ran("load_state_dict") # {}

(***************************************************************************)
(* C1: round trip.  When load_state_dict has returned, in either section   *)
(* of the save/load notebook, the new model's state_dict() has the keys of *)
(* the dict that was handed to torch.save and the same tensor under every  *)
(* key; the dict the next cell displays is that dict too.                  *)
(***************************************************************************)
C1_RoundTrip ==
    /\ JustDid("load_state_dict") => AsMap(CurrentStateDict) = AsMap(saved)
    /\ (JustDid("show_state_dict") /\ Ran("load_state_dict") # {}
            /\ Ran("load_state_dict") \cap {s \in 1..Len(Prog) : ran[s].last = clock - 1} # {})
        => out[Len(out)].value = saved

\* Both round trips are done, and the second new model was built with
\* other weights than the checkpoint holds.
C1_Witness ==
    /\ JustDid("load_state_dict")
    /\ Ran("load_state_dict") = Stmts("load_state_dict")
    /\ model.cls = "GPWithNNFeatureExtractor"
    /\ AsMap(preload) # AsMap(saved)
    /\ AsMap(CurrentStateDict) = AsMap(saved)

(***************************************************************************)
(* C2: all keys matched.  When control reaches load_state_dict the loaded  *)
(* dict has exactly the keys the new model expects, no key missing and no  *)
(* key unexpected, and when it has returned the cell displays              *)
(* <All keys matched successfully>.                                        *)
(***************************************************************************)
AllKeysMatched == [missing_keys |-> <<>>, unexpected_keys |-> <<>>]

C2_AllKeysMatched ==
    /\ At("load_state_dict") =>
        /\ Keys(state_dict) = Keys(CurrentStateDict)
        /\ missing_keys(CurrentStateDict, state_dict) = <<>>
        /\ unexpected_keys(CurrentStateDict, state_dict) = <<>>
    /\ (~Halted /\ pc \in Stmts("load_state_dict")) => At("load_state_dict")
    /\ JustDid("load_state_dict") => out[Len(out)].value = AllKeysMatched
    /\ \A s \in Stmts("load_state_dict") : exc = s => Keys(state_dict) = Keys(CurrentStateDict)

C2_Witness ==
    /\ JustDid("load_state_dict")
    /\ model.cls = "GPWithNNFeatureExtractor"
    /\ out[Len(out)].value = AllKeysMatched
    /\ Len(state_dict) = 24

(***************************************************************************)
(* C3: the checkpoint holds the state at the time of the save.  Once the   *)
(* first section has saved, model_state.pth holds the raw values of the    *)
(* outputscale 1.2 and the lengthscale 2.2 assigned before; and once the   *)
(* new ExactGPModel has loaded it, its outputscale and lengthscale are the *)
(* assigned values, which are not the values the constructor gave it.      *)
(***************************************************************************)
OutputscaleKey == <<"covar_module", "raw_outputscale">>

LengthscaleKey == <<"covar_module", "base_kernel", "raw_lengthscale">>

C3_CheckpointIsStateAtSave ==
    nb = "SaveLoad" =>
    /\ 10 \in Ran("torch_save") =>
        LET sd == AsMap(torch_load(files["model_state.pth"])) IN
        /\ softplus(sd[OutputscaleKey].val) = Assigned("outputscale")
        /\ softplus(sd[LengthscaleKey].val) = Assigned("lengthscale")
    /\ (13 \in Ran("load_state_dict") /\ model.cls = "ExactGPModel") =>
        /\ Hyper(model, <<"covar_module">>, "outputscale") = Assigned("outputscale")
        /\ Hyper(model, <<"covar_module", "base_kernel">>, "lengthscale")
                = Assigned("lengthscale")
        /\ softplus(AsMap(preload)[OutputscaleKey].val) # Assigned("outputscale")
        /\ softplus(AsMap(preload)[LengthscaleKey].val) # Assigned("lengthscale")

\* The load has returned in a run that found an older model_state.pth.
C3_Witness ==
    /\ nb = "SaveLoad"
    /\ JustDid("load_state_dict")
    /\ model.cls = "ExactGPModel"
    /\ Hyper(model, <<"covar_module">>, "outputscale") = 12000
    /\ Hyper(model, <<"covar_module", "base_kernel">>, "lengthscale") = 22000
    /\ "my_gp_with_nn_model.pth" \in DOMAIN files

(***************************************************************************)
(* C4: state_dict() has an entry for every trainable parameter.  Whenever  *)
(* a model is bound, every parameter of model.parameters() is in the state *)
(* dict under its key with its value -- the likelihood's noise, the mean's *)
(* constant, the kernel's parameters and the weight and bias of every      *)
(* feature-extractor layer -- and the dict handed to torch.save and the    *)
(* file written hold them all.                                             *)
(***************************************************************************)
CurrentParameters == NamedParameters(liks, model, <<>>)

Covers(sd, named) ==
    \A k \in 1..Len(named) :
        /\ named[k][1] \in Keys(sd)
        /\ AsMap(sd)[named[k][1]] = named[k][2]

C4_StateDictHasEveryParameter ==
    model # None =>
    /\ Covers(CurrentStateDict, CurrentParameters)
    /\ \A top \in {"likelihood", "mean_module", "covar_module"} :
            \E key \in Keys(CurrentParameters) : key[1] = top
    /\ model.cls = "GPWithNNFeatureExtractor" =>
            \A layer \in {"0", "1", "3", "4"}, name \in {"weight", "bias"} :
                <<"feature_extractor", layer, name>> \in Keys(CurrentParameters)
    /\ JustDid("torch_save") =>
        /\ Covers(saved, CurrentParameters)
        /\ \E f \in DOMAIN files : Covers(torch_load(files[f]), CurrentParameters)

C4_Witness ==
    /\ JustDid("torch_save")
    /\ model.cls = "GPWithNNFeatureExtractor"
    /\ Len(CurrentParameters) = 12
    /\ Len(CurrentStateDict) = 24
    /\ <<"feature_extractor", "3", "weight">> \in Keys(saved)

(***************************************************************************)
(* C5: the state dict holds raw values.  With outputscale = 1.2 and        *)
(* lengthscale = 2.2 assigned, the state dict (the one cell 5 displays     *)
(* included) has raw_outputscale 0.8416 and raw_lengthscale 2.0826, the    *)
(* inverse transforms of the assigned values and not the assigned values,  *)
(* and no key named outputscale or lengthscale.                            *)
(***************************************************************************)
HoldsRaw(sd) ==
    /\ OutputscaleKey \in Keys(sd)
    /\ LengthscaleKey \in Keys(sd)
    /\ AsMap(sd)[OutputscaleKey].val = 8416
    /\ AsMap(sd)[LengthscaleKey].val = 20826
    /\ AsMap(sd)[OutputscaleKey].val # Assigned("outputscale")
    /\ AsMap(sd)[LengthscaleKey].val # Assigned("lengthscale")
    /\ \A key \in Keys(sd) : key[Len(key)] \notin {"outputscale", "lengthscale"}

C5_StateDictHoldsRawValues ==
    /\ HasAssignedState => HoldsRaw(CurrentStateDict)
    /\ \A k \in 1..Len(out) : (nb = "SaveLoad" /\ out[k].cell = 5) => HoldsRaw(out[k].value)

C5_Witness ==
    /\ nb = "SaveLoad"
    /\ JustDid("show_state_dict")
    /\ out[Len(out)].cell = 5
    /\ HoldsRaw(out[Len(out)].value)
    /\ Hyper(model, <<"covar_module">>, "outputscale") = 12000

(***************************************************************************)
(* C6, as stated: every notebook writes exactly one checkpoint file and    *)
(* reads it back, with exactly one save call and exactly one load call.    *)
(***************************************************************************)
SavedFiles == {Prog[s].arg.file : s \in Ran("torch_save")}

C6_OneCheckpointPerNotebook ==
    Finished =>
        /\ Cardinality(Ran("torch_save")) = 1
        /\ Cardinality(Ran("torch_load")) = 1
        /\ Cardinality(SavedFiles) = 1

(***************************************************************************)
(* C6, amended: only the save/load notebook writes checkpoints, and it     *)
(* writes two, one per section.  Each file is written by one torch.save    *)
(* and read by one torch.load, the load is the statement right after the   *)
(* save, each runs at most once, the file holds exactly what torch.save    *)
(* produced and the dict read back is the dict saved.  The Spectral        *)
(* Mixture and CIQ notebooks have no save and no load and leave no file.   *)
(***************************************************************************)
C6_CheckpointPerSection ==
    /\ nb # "SaveLoad" =>
        /\ Stmts("torch_save") = {} /\ Stmts("torch_load") = {}
        /\ DOMAIN files = {}
    /\ nb = "SaveLoad" =>
        /\ Cardinality(Stmts("torch_save")) = 2
        /\ Cardinality({Prog[s].arg.file : s \in Stmts("torch_save")}) = 2
        /\ Stmts("torch_load") = {s + 1 : s \in Stmts("torch_save")}
        /\ \A s \in Stmts("torch_save") :
            /\ Prog[s + 1].arg.file = Prog[s].arg.file
            /\ ran[s].n <= 1 /\ ran[s + 1].n <= 1
            /\ ran[s + 1].n = 1 => (ran[s].n = 1 /\ ran[s + 1].last = ran[s].last + 1)
            /\ ran[s].last = clock /\ ran[s].n = 1 =>
                    files[Prog[s].arg.file] = torch_save(saved)
            /\ ran[s + 1].last = clock /\ ran[s + 1].n = 1 => state_dict = saved
        /\ Finished => (Ran("torch_save") = Stmts("torch_save")
                        /\ Ran("torch_load") = Stmts("torch_load")
                        /\ SavedFiles = {"model_state.pth", "my_gp_with_nn_model.pth"})

C6_Witness ==
    /\ nb = "SaveLoad"
    /\ Finished
    /\ Cardinality(Ran("torch_save")) = 2
    /\ Cardinality(Ran("torch_load")) = 2
    /\ DOMAIN files = {"model_state.pth", "my_gp_with_nn_model.pth"}

(***************************************************************************)
(* C7, as stated: every notebook defines a model class, trains by gradient *)
(* descent, saves and loads the parameters, and plots, in this order.      *)
(***************************************************************************)
\* Every completion of a statement of kind a precedes every one of kind b.
Before(a, b) == \A s \in Ran(a), t \in Ran(b) : ran[s].last < ran[t].first

C7_AllFourStepsInOrder ==
    Finished =>
        /\ Ran("class") # {} /\ Ran("step") # {}
        /\ Ran("torch_save") # {} /\ Ran("torch_load") # {}
        /\ Ran("plot") # {}
        /\ Before("step", "torch_save")
        /\ Before("torch_load", "plot")

(***************************************************************************)
(* C7, amended: every notebook defines its model class and builds the      *)
(* model before anything is done with it.  The Spectral Mixture and CIQ    *)
(* notebooks then train it, each step a gradient step on the marginal log  *)
(* likelihood, for training_iter iterations, and then predict; the         *)
(* Spectral Mixture notebook plots the prediction, the CIQ notebook draws  *)
(* two samples and plots nothing; neither saves or loads.  The save/load   *)
(* notebook saves and loads the parameters of its two models and neither   *)
(* trains nor plots.                                                       *)
(***************************************************************************)
C7_StepsPerNotebook ==
    /\ \A s \in Ran("new_model") :
            \E c \in Ran("class") :
                Prog[c].arg.cls = Prog[s].arg.cls /\ ran[c].first < ran[s].first
    /\ \A op \in {"forward", "step", "torch_save", "load_state_dict", "predict", "plot"} :
            \A s \in Ran(op) : \E m \in Ran("new_model") : ran[m].first < ran[s].first
    /\ nb = "SaveLoad" =>
        /\ Stmts("step") = {} /\ Stmts("predict") = {} /\ Stmts("plot") = {}
        /\ optimizer = None /\ fig = <<>>
        /\ Finished => (Ran("torch_save") = Stmts("torch_save")
                        /\ Ran("load_state_dict") = Stmts("load_state_dict")
                        /\ Cardinality(Stmts("load_state_dict")) = 2)
    /\ nb # "SaveLoad" =>
        /\ Stmts("torch_save") = {} /\ Stmts("torch_load") = {}
        /\ Stmts("load_state_dict") = {}
        /\ At("step") => (optimizer.grad = "set" /\ loss.of = "prior"
                          /\ mll.likelihood = LikRef(model))
        /\ Before("step", "predict") /\ Before("step", "plot") /\ Before("step", "rsample")
        /\ Before("predict", "plot") /\ Before("predict", "rsample")
        /\ Ran("predict") # {} => optimizer.steps = training_iter
        /\ Finished => (optimizer.steps = training_iter /\ training_iter >= 2
                        /\ observed_pred.kind = "posterior")
    /\ nb = "Spectral" =>
        (Finished => {"mean", "fill_between"} \subseteq {fig[k] : k \in 1..Len(fig)})
    /\ nb = "CIQ" =>
        /\ Stmts("plot") = {} /\ fig = <<>>
        /\ Finished => Len(y_samples) = 2

C7_Witness ==
    /\ nb = "Spectral"
    /\ Finished
    /\ optimizer.steps = 100
    /\ fig[Len(fig)] = "legend"
    /\ files = NoFiles

(***************************************************************************)
(* C8: each notebook runs as one linear sequence.  Statements complete one *)
(* at a time in the order of the cells (the statement completed last fixes *)
(* the next one); the model is built before train() is called, the loop    *)
(* has done all its iterations before eval() is called, and the prediction *)
(* is computed after an eval() that no train() follows.                    *)
(***************************************************************************)
RECURSIVE Completions(_)
Completions(s) == IF s = 0 THEN 0 ELSE ran[s].n + Completions(s - 1)

C8_LinearOrder ==
    /\ Completions(Len(Prog)) = clock
    /\ \A s \in 1..Len(Prog) :
        /\ ran[s].n > 0 => (1 <= ran[s].first /\ ran[s].first <= ran[s].last
                            /\ ran[s].last <= clock)
        /\ (ran[s].n > 0 /\ ran[s].last = clock) =>
            pc = CASE Prog[s].op = "step" -> Prog[s].arg.head
                   [] Prog[s].op = "for" /\ i >= training_iter -> Prog[s].arg.exit
                   [] OTHER -> s + 1
    /\ clock = 0 => pc = 1
    /\ Before("new_model", "model_train")
    /\ At("model_train") => model # None
    /\ Before("step", "model_eval")
    /\ (At("model_eval") \/ Ran("model_eval") # {}) =>
            (i = training_iter /\ optimizer.steps = training_iter)
    /\ \A p \in Ran("predict") :
            \E e \in Ran("model_eval") :
                /\ ran[e].last < ran[p].first
                /\ \A t \in Ran("model_train") : ran[t].last < ran[e].last

C8_Witness ==
    /\ nb = "CIQ"
    /\ JustDid("predict")
    /\ optimizer.steps = 50
    /\ Cardinality(Ran("model_train")) = 2

UseOps == {"forward", "loss", "backward", "step", "predict", "rsample"}

C10_ModesAgree ==
    /\ At("predict") =>
        /\ LikRef(model) = likelihood
        /\ AllTraining(model, FALSE) /\ AllTraining(liks[likelihood], FALSE)
    /\ At("step") =>
        /\ LikRef(model) = likelihood
        /\ AllTraining(model, TRUE) /\ AllTraining(liks[likelihood], TRUE)
    /\ \A op \in UseOps : At(op) => model.training = liks[likelihood].training
    /\ JustDid("likelihood_train") =>
            (AllTraining(model, TRUE) /\ AllTraining(liks[likelihood], TRUE))
    /\ JustDid("likelihood_eval") =>
            (AllTraining(model, FALSE) /\ AllTraining(liks[likelihood], FALSE))
    /\ observed_pred # None =>
            (observed_pred.kind = "posterior" /\ ~observed_pred.likelihood_training)
    /\ loss # None => (loss.of = "prior" /\ loss.likelihood_training)

C10_Witness ==
    /\ nb = "CIQ"
    /\ JustDid("predict")
    /\ observed_pred.kind = "posterior"
    /\ Cardinality(Ran("model_train")) = 2
    /\ ~model.training /\ ~liks[likelihood].training

(***************************************************************************)
(* C11: every SpectralMixtureGPModel starts optimization from the data.    *)
(* Its kernel is a spectral mixture kernel with 4 mixtures on which        *)
(* initialize_from_data has been called with the train_x and train_y the   *)
(* constructor was given; until the first optimizer step has been taken    *)
(* the kernel is exactly as that call left it, and its raw parameters are  *)
(* not the ones a new SpectralMixtureKernel(4) has.                        *)
(***************************************************************************)
SpectralKernel == Named(model.children, "covar_module")

NoStepYet == optimizer = None \/ optimizer.steps = 0

C11_InitializedFromData ==
    (model # None /\ model.cls = "SpectralMixtureGPModel") =>
        /\ SpectralKernel.num_mixtures = 4
        /\ Named(SpectralKernel.params, "raw_mixture_weights").shape = <<4>>
        /\ Named(SpectralKernel.params, "raw_mixture_means").shape = <<4, 1, 1>>
        /\ Named(SpectralKernel.params, "raw_mixture_scales").shape = <<4, 1, 1>>
        /\ SpectralKernel.init # None
        /\ SpectralKernel.init = [x |-> model.train_inputs, y |-> model.train_targets]
        /\ SpectralKernel.init = [x |-> train_x, y |-> train_y]
        /\ NoStepYet =>
            /\ SpectralKernel = initialize_from_data(SpectralMixtureKernel(4),
                                                     train_x, train_y)
            /\ SpectralKernel.params # SpectralMixtureKernel(4).params
        /\ At("new_optimizer") =>
                AsMap(NamedParameters(liks, model, <<>>))
                        [<<"covar_module", "raw_mixture_means">>].val = train_x.n

\* The first optimizer step of the Spectral Mixture notebook is about to be
\* taken, on a kernel initialised from the 15 training points.
C11_Witness ==
    /\ nb = "Spectral"
    /\ At("step")
    /\ optimizer.steps = 0
    /\ optimizer.grad = "set"
    /\ SpectralKernel.init = [x |-> train_x, y |-> train_y]
    /\ train_x.n = 15

(***************************************************************************)
(* C12: the optimizer holds the likelihood's parameters.  The parameter    *)
(* set given to Adam is model.parameters(), which has every parameter of   *)
(* the likelihood the model was built with (the noise among them) next to  *)
(* the mean's and the kernel's; so after each optimizer step the noise has *)
(* moved as often and as far as the mean's constant and the kernel's       *)
(* parameters have.                                                        *)
(***************************************************************************)
NoiseKey == <<"likelihood", "noise_covar", "raw_noise">>

\* The parameters of the likelihood bound to the name likelihood, under the
\* keys they have in the model.
LikelihoodParameters == NamedParameters(liks, liks[likelihood], <<"likelihood">>)

\* The value the constructors give the parameter under key.
InitialValue(key) ==
    IF model.cls = "SpectralMixtureGPModel" /\ key[1] = "covar_module"
    THEN train_x.n ELSE 0

C12_OptimizerHoldsLikelihood ==
    optimizer # None =>
        /\ LikRef(model) = likelihood
        /\ Keys(LikelihoodParameters) # {}
        /\ Keys(LikelihoodParameters) \subseteq optimizer.params
        /\ NoiseKey \in optimizer.params
        /\ optimizer.params = Keys(CurrentParameters)
        /\ \E key \in optimizer.params : key[1] = "mean_module"
        /\ \E key \in optimizer.params : key[1] = "covar_module"
        /\ \A key \in Keys(CurrentParameters) :
                AsMap(CurrentParameters)[key].val
                    = InitialValue(key) + optimizer.drift * optimizer.steps
        /\ optimizer.steps > 0 =>
                liks[likelihood].children[1][2].params[1][2].val # 0

\* The CIQ notebook has taken its first optimizer step and the noise, the
\* mean's constant and the lengthscale have all moved.
C12_Witness ==
    /\ nb = "CIQ"
    /\ JustDid("step")
    /\ optimizer.steps = 1
    /\ AsMap(CurrentParameters)[NoiseKey].val = optimizer.drift
    /\ AsMap(CurrentParameters)[<<"mean_module", "raw_constant">>].val = optimizer.drift
    /\ AsMap(CurrentParameters)[<<"covar_module", "base_kernel", "raw_lengthscale">>].val
            = optimizer.drift

(***************************************************************************)
(* C13: the two draws of the CIQ notebook run under different settings.    *)
(* The first rsample runs inside the with block that turns ciq_samples on  *)
(* with 10 quadrature sites and a minres tolerance of 1e-4; the second     *)
(* runs after that block has been left, inside the block that turns        *)
(* covar_root_decomposition off, with ciq_samples off again, and so is     *)
(* drawn with Cholesky.  No third draw is made.                            *)
(***************************************************************************)
\* The with blocks of the sampling cell (minres_tolerance in units of 1e-4).
CIQSettings ==
    [ciq_samples |-> TRUE, num_contour_quadrature |-> 10, minres_tolerance |-> 1]

CholeskySettings == [covar_root_decomposition |-> FALSE]

\* Some with block in effect sets the setting name.
InEffect(name) == \E k \in 1..Len(settings) : name \in DOMAIN settings[k]

C13_DrawsUnderDifferentSettings ==
    nb = "CIQ" =>
        /\ Len(y_samples) <= 2
        /\ (At("rsample") /\ y_samples = <<>>) =>
                /\ settings[Len(settings)] = CIQSettings
                /\ ~InEffect("covar_root_decomposition")
        /\ (At("rsample") /\ Len(y_samples) = 1) =>
                /\ settings[Len(settings)] = CholeskySettings
                /\ ~InEffect("ciq_samples")
                /\ ~InEffect("num_contour_quadrature")
                /\ ~InEffect("minres_tolerance")
        /\ Len(y_samples) >= 1 =>
                /\ y_samples[1].method = "ciq"
                /\ y_samples[1].settings.ciq_samples
                /\ y_samples[1].settings.num_contour_quadrature = 10
                /\ y_samples[1].settings.minres_tolerance = 1
        /\ Len(y_samples) = 2 =>
                /\ y_samples[2].method = "cholesky"
                /\ ~y_samples[2].settings.ciq_samples
                /\ ~y_samples[2].settings.covar_root_decomposition
                /\ y_samples[2].settings # y_samples[1].settings

\* Both draws are done.
C13_Witness ==
    /\ nb = "CIQ"
    /\ JustDid("rsample")
    /\ Len(y_samples) = 2
    /\ y_samples[1].method = "ciq"
    /\ y_samples[2].method = "cholesky"
    /\ Len(settings) = 2

(***************************************************************************)
(* C14: one flag sizes the test set and picks the kernel.  In the CIQ      *)
(* notebook test_n is 50000 when HAVE_KEOPS is true and 10000 otherwise,   *)
(* test_x has test_n points, the model's base kernel is the KeOps RBF      *)
(* kernel exactly when HAVE_KEOPS is true, and HAVE_KEOPS keeps the value  *)
(* cell 3 gave it, so the kernel is the KeOps one exactly when the test    *)
(* set has 50000 points.                                                   *)
(***************************************************************************)
BaseKernel == SubModule(model, <<"covar_module", "base_kernel">>)

C14_FlagSizesTestSetAndKernel ==
    nb = "CIQ" =>
        /\ Ran("have_keops") # {} => HAVE_KEOPS = env.keops
        /\ Ran("test_n") # {} =>
                /\ test_n = (IF HAVE_KEOPS THEN 50000 ELSE 10000)
                /\ BaseKernel.keops <=> test_n = 50000
        /\ test_x # None => test_x.n = test_n
        /\ model # None => (BaseKernel.keops <=> HAVE_KEOPS)
        /\ \A k \in 1..Len(y_samples) :
                y_samples[k].n = (IF BaseKernel.keops THEN 50000 ELSE 10000)

\* The flag was set to True: the KeOps kernel and 50000 test points.
C14_Witness ==
    /\ nb = "CIQ"
    /\ JustDid("test_x")
    /\ HAVE_KEOPS
    /\ BaseKernel.keops
    /\ test_n = 50000
    /\ test_x.n = 50000

(***************************************************************************)
(* C15: the CIQ notebook trains on 1000 training points and draws its      *)
(* samples at 20000 test points: the prior the loss is computed on has     *)
(* 1000 points, and the predictive distribution and every sample drawn     *)
(* from it have 20000.                                                     *)
(***************************************************************************)
C15_Trains1000Samples20000 ==
    nb = "CIQ" =>
        /\ train_x # None => train_x.n = 1000
        /\ output # None => output.n = 1000
        /\ observed_pred # None => observed_pred.n = 20000
        /\ \A k \in 1..Len(y_samples) : y_samples[k].n = 20000

====
